---- MODULE Spec2Model ----
(***************************************************************************)
(* The user service of main.py: the users table behind the /users           *)
(* handlers, and the in-memory job registry behind POST /users/{id}/export  *)
(* and GET /jobs/{id}.                                                      *)
(*                                                                          *)
(* Every handler is one action: the SQL statement it executes, the          *)
(* fetch_user_by_id that follows it and the HTTP response it produces.      *)
(* run_export_job is a coroutine with one suspension point (the             *)
(* asyncio.sleep of line 431), so it is two actions: the code before the    *)
(* await and the code after it. Nothing else runs on the event loop between *)
(* two statements that no await separates, and the body of GET /jobs/{id}   *)
(* is encoded on the event loop after the handler returned the dict.        *)
(***************************************************************************)
EXTENDS Integers, FiniteSets, Sequences, TLC

\* Bounds of the model.
NumUserIds == 2
MaxJobs == 2
MaxTime == 3

UserIds == 1..NumUserIds
JobIds == 1..MaxJobs

\* Python's None, for the optional fields of a payload or a row.
None == "None"

\* The values requests draw their fields from.
Emails == {"a@x.com", "b@x.com"}
Usernames == {"alice", "bob"}
FullNames == {"Alice Z."}
AvatarUrls == {"https://cdn.example.com"}
Phones == {"+1-215-000-0000"}

Opt(S) == S \cup {None}

\* UserCreate (the password is validated and never stored).
UserCreate == [email : Emails, username : Usernames, full_name : Opt(FullNames),
               avatar_url : Opt(AvatarUrls), phone : Opt(Phones)]

\* UserUpdate: every field optional.
UserUpdate == [username : Opt(Usernames), full_name : Opt(FullNames),
               avatar_url : Opt(AvatarUrls), phone : Opt(Phones)]

\* The POST /users payloads the clients of the model send.
CreatePayloads ==
    {p \in UserCreate :
        \/ p.full_name = None /\ p.avatar_url = None /\ p.phone = None
        \/ p.email = "b@x.com" /\ p.full_name # None /\ p.avatar_url # None /\ p.phone # None}

\* The PUT /users/{id} payloads the clients of the model send.
UpdatePayloads ==
    {p \in UserUpdate :
        \/ p.avatar_url = None /\ p.phone = None
        \/ p.username = None /\ p.full_name = None /\ p.avatar_url # None}

\* The payloads sent while export jobs run.
JobCreatePayloads == {p \in CreatePayloads : p.full_name = None /\ p.email = "a@x.com"}
JobUpdatePayloads == {p \in UpdatePayloads : p.username = "bob" /\ p.full_name = None}

\* The payload {} : no recognized field.
EmptyUpdate == [username |-> None, full_name |-> None, avatar_url |-> None, phone |-> None]

VARIABLES
    users,        \* the users table: id -> row, for the stored ids
    issued,       \* how many user ids uuid4() has handed to create_user
    now,          \* the data store's clock, epoch seconds
    jobs,         \* the dict jobs: job id -> dict
    tasks,        \* the background tasks added by start_export_user
    request,      \* the last HTTP request served
    response      \* its response

vars == <<users, issued, now, jobs, tasks, request, response>>

----------------------------------------------------------------------------
\* Responses

NoBody == << >>
\* Response headers: a set of <<name, value>>.
NoHeaders == {}
Header(name, value) == {<<name, value>>}
HasHeader(resp, name) == \E h \in resp.headers : h[1] = name
HeaderOf(resp, name) == {h[2] : h \in {x \in resp.headers : x[1] = name}}
NoToken == << >>

HTTPException(status_code, detail) ==
    [status |-> status_code, body |-> [detail |-> detail], headers |-> NoHeaders]

\* An exception no handler catches: the framework answers 500.
InternalServerError ==
    [status |-> 500, body |-> [detail |-> "Internal Server Error"], headers |-> NoHeaders]

Ok(status_code, body, headers) ==
    [status |-> status_code, body |-> body, headers |-> headers]

\* str(payload.avatar_url): an HttpUrl with an empty path prints with "/".
HttpUrl_str(url) ==
    IF url = "https://cdn.example.com" THEN "https://cdn.example.com/" ELSE url

\* compute_token from the id alone.
compute_token_id_only(user) == <<"W/", user.id, 0>>

\* The weak validator of a user: its id and last-modified epoch seconds.
compute_token(user) == <<"W/", user.id, user.updated_at>>

----------------------------------------------------------------------------
\* The users table

\* The time a row-changing statement runs at: later than every earlier one.
CURRENT_TIMESTAMP == now + 1

\* SELECT * FROM users WHERE id = %s, as a response.
fetch_user_by_id(table, user_id) ==
    IF user_id \in DOMAIN table
    THEN Ok(200, table[user_id], NoHeaders)
    ELSE HTTPException(404, "User not found")

\* unique(email) or unique(username) violated by an INSERT.
InsertIntegrityError(payload) ==
    \E k \in DOMAIN users :
        users[k].email = payload.email \/ users[k].username = payload.username

\* INSERT INTO users (id, email, username, full_name, avatar_url, phone);
\* created_at and updated_at take the column default.
InsertUser(user_id, payload) ==
    [k \in DOMAIN users \cup {user_id} |->
        IF k = user_id
        THEN [id |-> user_id,
              email |-> payload.email,
              username |-> payload.username,
              full_name |-> payload.full_name,
              avatar_url |-> IF payload.avatar_url # None
                             THEN HttpUrl_str(payload.avatar_url) ELSE None,
              phone |-> payload.phone,
              created_at |-> CURRENT_TIMESTAMP,
              updated_at |-> CURRENT_TIMESTAMP]
        ELSE users[k]]

\* The fields list of replace_user: the names of the payload's non-None fields.
Fields(payload) ==
    {f \in {"username", "full_name", "avatar_url", "phone"} : payload[f] # None}

\* The SET clause applied to one row.
SetClause(row, payload) ==
    [row EXCEPT
        !.username = IF payload.username # None THEN payload.username ELSE @,
        !.full_name = IF payload.full_name # None THEN payload.full_name ELSE @,
        !.avatar_url = IF payload.avatar_url # None
                       THEN HttpUrl_str(payload.avatar_url) ELSE @,
        !.phone = IF payload.phone # None THEN payload.phone ELSE @]

\* unique(username) violated by the UPDATE.
UpdateIntegrityError(user_id, payload) ==
    /\ user_id \in DOMAIN users
    /\ payload.username # None
    /\ \E k \in DOMAIN users \ {user_id} : users[k].username = payload.username

\* cur.rowcount after the UPDATE: the rows the statement changed.
UpdateRowcount(user_id, payload) ==
    IF user_id \in DOMAIN users /\ SetClause(users[user_id], payload) # users[user_id]
    THEN 1 ELSE 0

\* The last-modified column of a row a statement changed.
OnUpdateTimestamp(row) == [row EXCEPT !.updated_at = CURRENT_TIMESTAMP]

\* UPDATE users SET ... WHERE id = %s, on a row it changes.
UpdateUser(user_id, payload) ==
    [users EXCEPT ![user_id] = OnUpdateTimestamp(SetClause(@, payload))]

\* DELETE FROM users WHERE id = %s
DeleteUser(user_id) == [k \in DOMAIN users \ {user_id} |-> users[k]]

----------------------------------------------------------------------------
\* The job registry

\* d[k] = v on a dict.
SetItem(d, k, v) == [x \in DOMAIN d \cup {k} |-> IF x = k THEN v ELSE d[x]]

\* str(uuid4()) in start_export_user: a key the registry does not hold.
NewJobId == Cardinality(DOMAIN jobs) + 1

----------------------------------------------------------------------------
Init ==
    /\ users = << >>
    /\ issued = 0
    /\ now = 0
    /\ jobs = << >>
    /\ tasks = << >>
    /\ request = [op |-> "none"]
    /\ response = Ok(0, NoBody, NoHeaders)

\* POST /users
create_user(payload) ==
    /\ request' = [op |-> "create_user", payload |-> payload]
    /\ IF InsertIntegrityError(payload)
       THEN /\ response' = HTTPException(400, "Email or username already exists")
            /\ UNCHANGED <<users, issued, now>>
       ELSE /\ issued < NumUserIds
            /\ now < MaxTime
            /\ users' = InsertUser(issued + 1, payload)
            /\ issued' = issued + 1
            /\ now' = CURRENT_TIMESTAMP
            /\ response' = [fetch_user_by_id(users', issued + 1) EXCEPT
                               !.status = 201,
                               !.headers = Header("Location", <<"/users/", issued + 1>>)]
    /\ UNCHANGED <<jobs, tasks>>

\* GET /users/{user_id}
get_user(user_id, if_none_match) ==
    /\ request' = [op |-> "get_user", user_id |-> user_id,
                   if_none_match |-> if_none_match]
    /\ response' = fetch_user_by_id(users, user_id)
    /\ UNCHANGED <<users, issued, now, jobs, tasks>>

\* PUT /users/{user_id}
replace_user(user_id, payload, if_match) ==
    /\ request' = [op |-> "replace_user", user_id |-> user_id, payload |-> payload,
                   if_match |-> if_match]
    /\ IF Fields(payload) = {}
       THEN /\ response' = fetch_user_by_id(users, user_id)
            /\ UNCHANGED <<users, now>>
       ELSE IF UpdateIntegrityError(user_id, payload)
       THEN /\ response' = InternalServerError
            /\ UNCHANGED <<users, now>>
       ELSE IF UpdateRowcount(user_id, payload) = 0
       THEN /\ response' = HTTPException(404, "User not found")
            /\ UNCHANGED <<users, now>>
       ELSE /\ now < MaxTime
            /\ users' = UpdateUser(user_id, payload)
            /\ now' = CURRENT_TIMESTAMP
            /\ response' = fetch_user_by_id(users', user_id)
    /\ UNCHANGED <<issued, jobs, tasks>>

\* DELETE /users/{user_id}
delete_user(user_id) ==
    /\ request' = [op |-> "delete_user", user_id |-> user_id]
    /\ IF user_id \in DOMAIN users
       THEN /\ users' = DeleteUser(user_id)
            /\ response' = Ok(204, NoBody, NoHeaders)
       ELSE /\ response' = HTTPException(404, "User not found")
            /\ UNCHANGED users
    /\ UNCHANGED <<issued, now, jobs, tasks>>

\* start_export_user without the fetch_user_by_id of line 453.
start_export_user_unchecked(user_id) ==
    /\ request' = [op |-> "start_export_user", user_id |-> user_id]
    /\ Cardinality(DOMAIN jobs) < MaxJobs
    /\ jobs' = SetItem(jobs, NewJobId, [status |-> "pending"])
    /\ tasks' = SetItem(tasks, NewJobId,
                        [pc |-> "scheduled", job_id |-> NewJobId, user_id |-> user_id])
    /\ response' = Ok(202, [job_id |-> NewJobId, status |-> "pending"],
                      Header("Location", <<"/jobs/", NewJobId>>))
    /\ UNCHANGED <<users, issued, now>>

\* POST /users/{user_id}/export
start_export_user(user_id) ==
    /\ request' = [op |-> "start_export_user", user_id |-> user_id]
    /\ IF user_id \notin DOMAIN users
       THEN /\ response' = fetch_user_by_id(users, user_id)
            /\ UNCHANGED <<jobs, tasks>>
       ELSE /\ Cardinality(DOMAIN jobs) < MaxJobs
            /\ jobs' = SetItem(jobs, NewJobId, [status |-> "pending"])
            /\ tasks' = SetItem(tasks, NewJobId,
                                [pc |-> "scheduled", job_id |-> NewJobId,
                                 user_id |-> user_id])
            /\ response' = Ok(202, [job_id |-> NewJobId, status |-> "pending"],
                              Header("Location", <<"/jobs/", NewJobId>>))
    /\ UNCHANGED <<users, issued, now>>

\* run_export_job up to its await: line 429.
run_export_job_start(job_id) ==
    /\ job_id \in DOMAIN tasks
    /\ tasks[job_id].pc = "scheduled"
    /\ jobs' = [jobs EXCEPT ![job_id] = SetItem(@, "status", "running")]
    /\ tasks' = [tasks EXCEPT ![job_id].pc = "sleeping"]
    /\ UNCHANGED <<users, issued, now, request, response>>

\* run_export_job_finish with the result written in a later step that never comes.
run_export_job_finish_torn(job_id) ==
    /\ job_id \in DOMAIN tasks
    /\ tasks[job_id].pc = "sleeping"
    /\ jobs' = [jobs EXCEPT ![job_id] = SetItem(@, "status", "completed")]
    /\ tasks' = [tasks EXCEPT ![job_id].pc = "done"]
    /\ UNCHANGED <<users, issued, now, request, response>>

\* run_export_job_finish that completes only while the user row is stored.
run_export_job_finish_needs_user(job_id) ==
    /\ job_id \in DOMAIN tasks
    /\ tasks[job_id].pc = "sleeping"
    /\ tasks[job_id].user_id \in DOMAIN users
    /\ jobs' = [jobs EXCEPT ![job_id] =
                   SetItem(SetItem(@, "status", "completed"), "result",
                           [user_export_url |-> <<"/users/", tasks[job_id].user_id>>])]
    /\ tasks' = [tasks EXCEPT ![job_id].pc = "done"]
    /\ UNCHANGED <<users, issued, now, request, response>>

\* run_export_job after its await: lines 432 and 433.
run_export_job_finish(job_id) ==
    /\ job_id \in DOMAIN tasks
    /\ tasks[job_id].pc = "sleeping"
    /\ jobs' = [jobs EXCEPT ![job_id] =
                   SetItem(SetItem(@, "status", "completed"), "result",
                           [user_export_url |-> <<"/users/", tasks[job_id].user_id>>])]
    /\ tasks' = [tasks EXCEPT ![job_id].pc = "done"]
    /\ UNCHANGED <<users, issued, now, request, response>>

\* get_job_status with jobs.pop in place of jobs.get.
get_job_status_pop(job_id) ==
    /\ request' = [op |-> "get_job_status", job_id |-> job_id]
    /\ response' = IF job_id \in DOMAIN jobs
                   THEN Ok(200, jobs[job_id], NoHeaders)
                   ELSE HTTPException(404, "Job not found")
    /\ jobs' = [k \in DOMAIN jobs \ {job_id} |-> jobs[k]]
    /\ UNCHANGED <<users, issued, now, tasks>>

\* GET /jobs/{job_id}
get_job_status(job_id) ==
    /\ request' = [op |-> "get_job_status", job_id |-> job_id]
    /\ response' = IF job_id \in DOMAIN jobs
                   THEN Ok(200, jobs[job_id], NoHeaders)
                   ELSE HTTPException(404, "Job not found")
    /\ UNCHANGED <<users, issued, now, jobs, tasks>>

\* The precondition headers a client can send for a user id.
Tokens(user_id) == {NoToken} \cup {<<"W/", user_id, t>> : t \in 1..MaxTime}

Next ==
    \/ \E payload \in CreatePayloads : create_user(payload)
    \/ \E user_id \in UserIds : \E m \in Tokens(user_id) : get_user(user_id, m)
    \/ \E user_id \in UserIds : \E payload \in UpdatePayloads : \E m \in Tokens(user_id) :
           replace_user(user_id, payload, m)
    \/ \E user_id \in UserIds : delete_user(user_id)

Spec == Init /\ [][Next]_vars

\* The export jobs, beside writers of the users table.
JobNext ==
    \/ \E payload \in JobCreatePayloads : create_user(payload)
    \/ \E user_id \in UserIds : \E payload \in JobUpdatePayloads :
           replace_user(user_id, payload, NoToken)
    \/ \E user_id \in UserIds : delete_user(user_id)
    \/ \E user_id \in UserIds : start_export_user(user_id)
    \/ \E job_id \in JobIds : run_export_job_start(job_id)
    \/ \E job_id \in JobIds : run_export_job_finish(job_id)
    \/ \E job_id \in JobIds : get_job_status(job_id)

JobSpec == Init /\ [][JobNext]_vars

\* The background task of a response runs once the response is sent, and the
\* sleep of line 431 ends.
FairJobSpec ==
    /\ JobSpec
    /\ \A job_id \in JobIds :
           /\ WF_vars(run_export_job_start(job_id))
           /\ WF_vars(run_export_job_finish(job_id))

----------------------------------------------------------------------------
\* The claims

\* The token of the stored user.
CurrentToken(user_id) == compute_token(users[user_id])

\* C1: a PUT /users/{id} whose If-Match differs from the token of the stored
\* user is answered 412 and writes nothing: the stored users are unchanged.
C1_StaleIfMatchRejected ==
    [][\A user_id \in UserIds : \A payload \in UpdatePayloads :
         \A m \in Tokens(user_id) \ {NoToken} :
           (/\ replace_user(user_id, payload, m)
            /\ user_id \in DOMAIN users
            /\ m # CurrentToken(user_id))
           => (response'.status = 412 /\ users' = users)]_vars

\* A registry entry, or a snapshot of one, is completed exactly when it has a result.
Consistent(job) == (job.status = "completed") <=> ("result" \in DOMAIN job)

\* C2: in every state of the job registry, and in every snapshot GET /jobs/{id}
\* returns, an entry has status completed if and only if it carries a result.
C2_CompletedIffResult ==
    /\ \A job_id \in DOMAIN jobs : Consistent(jobs[job_id])
    /\ (request.op = "get_job_status" /\ response.status = 200)
           => Consistent(response.body)

\* A poller received a completed snapshot with its result while another job's
\* task was between its two steps.
C2_Witness ==
    /\ request.op = "get_job_status"
    /\ response.status = 200
    /\ response.body.status = "completed"
    /\ "result" \in DOMAIN response.body
    /\ \E job_id \in DOMAIN tasks : tasks[job_id].pc = "sleeping"

\* C3: a job's status is one of pending, running, completed; an entry is created
\* pending; its status changes only pending -> running -> completed, each change
\* made by one step of the job's own background task; no entry is ever removed.
C3_StatusLifecycle ==
    [][/\ \A job_id \in DOMAIN jobs : job_id \in DOMAIN jobs'
       /\ \A job_id \in DOMAIN jobs' \ DOMAIN jobs : jobs'[job_id].status = "pending"
       /\ \A job_id \in DOMAIN jobs' :
            /\ jobs'[job_id].status \in {"pending", "running", "completed"}
            /\ job_id \in DOMAIN tasks'
            /\ <<jobs'[job_id].status, tasks'[job_id].pc>> \in
                   {<<"pending", "scheduled">>, <<"running", "sleeping">>,
                    <<"completed", "done">>}
       /\ \A job_id \in DOMAIN jobs \cap DOMAIN jobs' :
            jobs'[job_id].status # jobs[job_id].status =>
              /\ <<jobs[job_id].status, jobs'[job_id].status>> \in
                     {<<"pending", "running">>, <<"running", "completed">>}
              /\ run_export_job_start(job_id) \/ run_export_job_finish(job_id)
      ]_vars

\* One job has completed while a later one is still pending.
C3_Witness ==
    \E j1 \in DOMAIN jobs : \E j2 \in DOMAIN jobs :
        jobs[j1].status = "completed" /\ jobs[j2].status = "pending"

\* C4: every enqueued job eventually has status completed, with a result that
\* references the user id it was enqueued for.
C4_EnqueuedCompletes ==
    \A job_id \in JobIds :
        (job_id \in DOMAIN jobs) ~>
            (/\ job_id \in DOMAIN jobs
             /\ jobs[job_id].status = "completed"
             /\ "result" \in DOMAIN jobs[job_id]
             /\ jobs[job_id].result.user_export_url = <<"/users/", tasks[job_id].user_id>>)

\* A job completed for a user whose row has been deleted in the meantime.
C4_Witness ==
    \E job_id \in DOMAIN jobs :
        /\ jobs[job_id].status = "completed"
        /\ jobs[job_id].result.user_export_url = <<"/users/", tasks[job_id].user_id>>
        /\ tasks[job_id].user_id \notin DOMAIN users

\* C5: GET /users/{id} of a stored user with If-None-Match equal to its token is
\* answered 304 with no body and that token; without the precondition it is
\* answered with the full user and its token.
C5_ConditionalGet ==
    [][\A user_id \in UserIds : \A m \in Tokens(user_id) :
         (get_user(user_id, m) /\ user_id \in DOMAIN users) =>
            /\ m = CurrentToken(user_id) =>
                 response' = Ok(304, NoBody, Header("ETag", CurrentToken(user_id)))
            /\ m = NoToken =>
                 response' = Ok(200, users[user_id], Header("ETag", CurrentToken(user_id)))
      ]_vars

C7_Enqueue ==
    [][\A user_id \in UserIds :
         start_export_user(user_id) =>
            IF user_id \notin DOMAIN users
            THEN /\ response'.status = 404
                 /\ jobs' = jobs
                 /\ tasks' = tasks
            ELSE \E job_id \in DOMAIN jobs' \ DOMAIN jobs :
                 /\ DOMAIN jobs' = DOMAIN jobs \cup {job_id}
                 /\ \A k \in DOMAIN jobs : jobs'[k] = jobs[k]
                 /\ jobs'[job_id] = [status |-> "pending"]
                 /\ DOMAIN tasks' = DOMAIN tasks \cup {job_id}
                 /\ \A k \in DOMAIN tasks : tasks'[k] = tasks[k]
                 /\ tasks'[job_id].pc = "scheduled"
                 /\ tasks'[job_id].user_id = user_id
                 /\ response'.status = 202
                 /\ response'.body = [job_id |-> job_id, status |-> "pending"]
      ]_vars

\* An export was accepted and its task has not yet taken a step.
C7_Witness ==
    /\ request.op = "start_export_user"
    /\ response.status = 202
    /\ response.body.job_id \in DOMAIN jobs
    /\ jobs[response.body.job_id] = [status |-> "pending"]
    /\ tasks[response.body.job_id].pc = "scheduled"
    /\ Cardinality(DOMAIN jobs) > 1

\* C8: a PUT /users/{id} with no recognized field writes nothing; for a stored
\* user it is answered with the stored user and its current token.
C8_EmptyUpdateNoOp ==
    [][\A user_id \in UserIds : \A m \in Tokens(user_id) :
         replace_user(user_id, EmptyUpdate, m) =>
            /\ users' = users
            /\ user_id \in DOMAIN users =>
                 /\ response'.status = 200
                 /\ response'.body = users[user_id]
                 /\ HeaderOf(response', "ETag") = {CurrentToken(user_id)}
      ]_vars

\* No two stored users share an email or a username.
Unique(table) ==
    \A a \in DOMAIN table : \A b \in DOMAIN table \ {a} :
        table[a].email # table[b].email /\ table[a].username # table[b].username

\* C9: no two stored users share an email or a username, and a write that would
\* make two do so (POST /users with a stored email or username, PUT /users/{id}
\* with a username another user holds) is answered 400 and changes no user.
C9_UniqueOrConflict ==
    [][/\ Unique(users')
       /\ \A payload \in CreatePayloads :
            (/\ create_user(payload)
             /\ \E k \in DOMAIN users : users[k].email = payload.email
                                        \/ users[k].username = payload.username)
            => (response'.status = 400 /\ users' = users)
       /\ \A user_id \in UserIds : \A payload \in UpdatePayloads :
          \A m \in Tokens(user_id) :
            (/\ replace_user(user_id, payload, m)
             /\ user_id \in DOMAIN users
             /\ \E k \in DOMAIN users \ {user_id} : users[k].username = payload.username)
            => (response'.status = 400 /\ users' = users)
      ]_vars

\* The row a PUT is to leave: the supplied fields set, every other field as it was.
Updated(row, payload) ==
    [f \in DOMAIN row |->
        IF f \in {"username", "full_name", "phone"} /\ payload[f] # None THEN payload[f]
        ELSE IF f = "avatar_url" /\ payload[f] # None THEN HttpUrl_str(payload[f])
        ELSE row[f]]

\* C10: a PUT /users/{id} with at least one recognized field (and no username
\* another user holds) is answered 404 exactly when the id is not stored; on a
\* stored user it is answered 200 with the updated user, in which the supplied
\* fields are set and every other field except last-modified is as it was.
C10_UpdateNotFoundIffAbsent ==
    [][\A user_id \in UserIds : \A payload \in UpdatePayloads \ {EmptyUpdate} :
       \A m \in Tokens(user_id) :
         (/\ replace_user(user_id, payload, m)
          /\ ~ \E k \in DOMAIN users \ {user_id} : users[k].username = payload.username)
         => IF user_id \notin DOMAIN users
            THEN response'.status = 404 /\ users' = users
            ELSE /\ response'.status = 200
                 /\ response'.body = users'[user_id]
                 /\ [users'[user_id] EXCEPT !.updated_at = 0]
                        = [Updated(users[user_id], payload) EXCEPT !.updated_at = 0]
                 /\ \A k \in DOMAIN users \ {user_id} : users'[k] = users[k]
      ]_vars

\* C11: of two PUT /users/{id} that both change the user and carry the same
\* If-Match token, at most one is applied: once a PUT carrying the token the
\* user had has changed the user, a second PUT carrying that same token is
\* answered 412 and writes nothing.
C11_ConditionalPutAtomic ==
    [][\A user_id \in UserIds : \A payload \in UpdatePayloads \ {EmptyUpdate} :
       \A m \in Tokens(user_id) \ {NoToken} :
         (/\ request.op = "replace_user"
          /\ request.user_id = user_id
          /\ request.if_match = m
          /\ request.payload # EmptyUpdate
          /\ response.status = 200
          /\ response.body.updated_at = response.body.created_at + 1
          /\ m = <<"W/", user_id, response.body.created_at>>
          /\ replace_user(user_id, payload, m)
          /\ user_id \in DOMAIN users
          /\ SetClause(users[user_id], payload) # users[user_id])
         => (response'.status = 412 /\ users' = users)
      ]_vars

====
